---- MODULE Spec2Model ----
(***************************************************************************)
(* State-machine model of app.py (CSV -> point shapefile converter).       *)
(*                                                                         *)
(* Strings are sequences of one-character strings, so that re.sub,         *)
(* slicing, str.lower, str.strip and str(i) are computed character by      *)
(* character.  A DataFrame is a record of its column names and its rows;   *)
(* a row carries its pandas index label and one cell per column.           *)
(***************************************************************************)
EXTENDS Integers, Sequences, FiniteSets, TLC

VARIABLES
    pc,            \* position of the running code
    caller,        \* "san" | "build" | "guess" | "app": who entered the helpers
    df,            \* the DataFrame read from the upload / handed to a helper
    given,         \* history: the frame as it was handed in when the run started
    lat_col,       \* selected latitude column name
    lon_col,       \* selected longitude column name
    guessed,       \* result of guess_lat_lon_columns: [lat, lon]
    work,          \* build_gdf_from_csv: the local copy being coerced and filtered
    gdf_wgs84,     \* GeoDataFrame built from the CSV
    gdf_out,       \* GeoDataFrame after the optional reprojection
    attrs,         \* input of safe_shapefile_columns
    new_cols,      \* safe_shapefile_columns: names assigned so far
    used,          \* safe_shapefile_columns: lowercased names assigned so far
    c_pos,         \* safe_shapefile_columns: position of the for loop in df.columns
    base,          \* safe_shapefile_columns: base of the current column
    candidate,     \* safe_shapefile_columns: current candidate
    i,             \* safe_shapefile_columns: next suffix number
    attrs_safe,    \* output of safe_shapefile_columns
    inputs,        \* widget values of the current script run
    show_preview,  \* st.session_state.show_preview (persists across runs)
    dirs,          \* temporary directories existing on disk: name -> set of files
    tmpdir,        \* name bound by the with statement, or NoDir
    ui             \* what the current run has rendered / produced

vars == << pc, caller, df, given, lat_col, lon_col, guessed, work, gdf_wgs84,
           gdf_out, attrs, new_cols, used, c_pos, base, candidate, i,
           attrs_safe, inputs, show_preview, dirs, tmpdir, ui >>

----------------------------------------------------------------------------
(* Bounds of the model. *)
MaxCols  == 3     \* columns of a frame handed to safe_shapefile_columns
MaxDup   == 11    \* length of a frame whose columns all carry the same name
MaxBuildRows == 2 \* rows of a frame handed to build_gdf_from_csv on its own
MaxGuessCols == 3 \* columns of a frame handed to guess_lat_lon_columns on its own
MaxRows  == 2     \* rows of an uploaded CSV in a script run

----------------------------------------------------------------------------
(* Characters and strings. *)

UpperChars == << "A","B","C","D","E","F","G","H","I","J","K","L","M",
                 "N","O","P","Q","R","S","T","U","V","W","X","Y","Z" >>
LowerChars == << "a","b","c","d","e","f","g","h","i","j","k","l","m",
                 "n","o","p","q","r","s","t","u","v","w","x","y","z" >>
DigitChars == << "0","1","2","3","4","5","6","7","8","9" >>

Range(f) == { f[x] : x \in DOMAIN f }

IsUpper(ch) == ch \in Range(UpperChars)
IsLower(ch) == ch \in Range(LowerChars)
IsDigit(ch) == ch \in Range(DigitChars)

\* str.lower on one character
LowerChar(ch) ==
    IF IsUpper(ch)
    THEN LowerChars[CHOOSE k \in 1..26 : UpperChars[k] = ch]
    ELSE ch

\* str.lower
LowerStr(s) == [k \in 1..Len(s) |-> LowerChar(s[k])]

\* s[:n]
Take(s, n) == IF n >= Len(s) THEN s ELSE SubSeq(s, 1, n)

\* str(i) for i >= 0
RECURSIVE Str(_)
Str(n) ==
    IF n < 10 THEN << DigitChars[n + 1] >>
    ELSE Str(n \div 10) \o << DigitChars[(n % 10) + 1] >>

Max(a, b) == IF a >= b THEN a ELSE b

----------------------------------------------------------------------------
(* safe_shapefile_columns *)

FieldNameMax == 10

\* the character class [A-Za-z0-9_]
IsFieldChar(ch) == IsUpper(ch) \/ IsLower(ch) \/ IsDigit(ch) \/ ch = "_"

\* variant: illegal characters are deleted instead of replaced
BaseStripping(c) ==
    LET kept == SelectSeq(c, IsFieldChar)
        b    == Take(kept, FieldNameMax)
    IN  IF b = << >> THEN << "f","i","e","l","d" >> ELSE b

\* base = re.sub(r"[^A-Za-z0-9_]", "_", str(c))[:10]; if not base: base = "field"
Base(c) ==
    LET subbed == [k \in 1..Len(c) |-> IF IsFieldChar(c[k]) THEN c[k] ELSE "_"]
        b      == Take(subbed, FieldNameMax)
    IN  IF b = << >> THEN << "f","i","e","l","d" >> ELSE b

\* variant: the suffix is appended to the untruncated base
NextCandidateNoTrunc(b, n) == b \o Str(n)

\* variant: numbering starts one too high
NextCandidateOffByOne(b, n) ==
    LET suffix == Str(n + 1)
    IN  Take(Take(b, Max(0, FieldNameMax - Len(suffix))) \o suffix, FieldNameMax)

\* suffix = str(i); candidate = (base[: max(0, 10 - len(suffix))] + suffix)[:10]
NextCandidate(b, n) ==
    LET suffix == Str(n)
    IN  Take(Take(b, Max(0, FieldNameMax - Len(suffix))) \o suffix, FieldNameMax)

\* variant: the membership test forgets to lowercase the candidate
InUsedCaseSensitive(cand, u) == cand \in u

\* candidate.lower() in used
InUsed(cand, u) == LowerStr(cand) \in u

\* out = df.copy(); out.columns = new_cols
SetColumns(d, cols) == [columns |-> cols, rows |-> d.rows]

----------------------------------------------------------------------------
(* Values of the model: cells, frames, and the "nothing yet" values. *)

StrCell(s) == [k |-> "str", s |-> s, n |-> 0]
NumCell(n) == [k |-> "num", s |-> << >>, n |-> n]
NaN        == [k |-> "nan", s |-> << >>, n |-> 0]

NoName   == << "<", "N", "o", "n", "e", ">" >>
NoDf     == [columns |-> << >>, rows |-> << >>]
NoGdf    == [columns |-> << >>, rows |-> << >>, geometry |-> << >>, crs |-> << >>]
NoGuess  == [lat |-> NoName, lon |-> NoName]
NoDir    == "none"
NoInputs == [uploaded |-> FALSE, crs_opt |-> "EPSG:4326 (WGS84)", epsg |-> << >>,
             out_crs |-> << >>, convert_btn |-> FALSE]
NoUi     == [errors |-> {}, warnings |-> {}, bad |-> -1, map_shown |-> FALSE,
             points |-> -1, zip_bytes |-> {}, download |-> FALSE,
             result |-> "running"]

SeqsUpTo(S, n) == UNION { [1..m -> S] : m \in 0..n }

----------------------------------------------------------------------------
(* safe_shapefile_columns, statement by statement. *)

\* for c in df.columns: base = ...; candidate = base; i = 1
SanForNext ==
    /\ pc = "san_for"
    /\ c_pos < Len(attrs.columns)
    /\ c_pos' = c_pos + 1
    /\ base' = Base(attrs.columns[c_pos + 1])
    /\ candidate' = base'
    /\ i' = 1
    /\ pc' = "san_while"
    /\ UNCHANGED << caller, df, given, lat_col, lon_col, guessed, work, gdf_wgs84,
                    gdf_out, attrs, new_cols, used, attrs_safe, inputs,
                    show_preview, dirs, tmpdir, ui >>

\* while candidate.lower() in used: suffix = str(i); candidate = ...; i += 1
SanWhileBody ==
    /\ pc = "san_while"
    /\ InUsed(candidate, used)
    /\ candidate' = NextCandidate(base, i)
    /\ i' = i + 1
    /\ UNCHANGED << pc, caller, df, given, lat_col, lon_col, guessed, work,
                    gdf_wgs84, gdf_out, attrs, new_cols, used, c_pos, base,
                    attrs_safe, inputs, show_preview, dirs, tmpdir, ui >>

\* used.add(candidate.lower()); new_cols.append(candidate)
SanAssign ==
    /\ pc = "san_while"
    /\ ~ InUsed(candidate, used)
    /\ used' = used \cup { LowerStr(candidate) }
    /\ new_cols' = Append(new_cols, candidate)
    /\ pc' = "san_for"
    /\ UNCHANGED << caller, df, given, lat_col, lon_col, guessed, work, gdf_wgs84,
                    gdf_out, attrs, c_pos, base, candidate, i, attrs_safe,
                    inputs, show_preview, dirs, tmpdir, ui >>

\* variant: the new names are assigned to the frame that was passed in
SanFinishInPlace ==
    /\ pc = "san_for"
    /\ c_pos = Len(attrs.columns)
    /\ attrs' = SetColumns(attrs, new_cols)
    /\ attrs_safe' = attrs'
    /\ pc' = IF caller = "app" THEN "mkdtemp" ELSE "san_done"
    /\ UNCHANGED << caller, df, given, lat_col, lon_col, guessed, work, gdf_wgs84,
                    gdf_out, new_cols, used, c_pos, base, candidate, i,
                    inputs, show_preview, dirs, tmpdir, ui >>

\* out = df.copy(); out.columns = new_cols; return out
SanFinish ==
    /\ pc = "san_for"
    /\ c_pos = Len(attrs.columns)
    /\ attrs_safe' = SetColumns(attrs, new_cols)
    /\ pc' = IF caller = "app" THEN "mkdtemp" ELSE "san_done"
    /\ UNCHANGED << caller, df, given, lat_col, lon_col, guessed, work, gdf_wgs84,
                    gdf_out, attrs, new_cols, used, c_pos, base, candidate, i,
                    inputs, show_preview, dirs, tmpdir, ui >>

----------------------------------------------------------------------------
(* Specification of safe_shapefile_columns on its own: every frame whose   *)
(* column names are drawn from SanNames, plus the frames of the spec's     *)
(* scenarios and frames whose columns all carry the same name.             *)

StationNameID == << "S","t","a","t","i","o","n"," ","N","a","m","e"," ","(","I","D",")" >>
Lat           == << "L","a","t" >>
Lon           == << "L","o","n" >>
TempMinusC    == << "T","e","m","p","-","C" >>
TempUnderC    == << "T","e","m","p","_","C" >>
TempLower     == << "t","e","m","p"," ","c" >>
Eleven        == << "a","b","c","d","e","f","g","h","i","j","k" >>
Ten           == << "a","b","c","d","e","f","g","h","i","j" >>
TenUpper      == << "A","B","C","D","E","F","G","H","I","J" >>
NineAndOne    == << "a","b","c","d","e","f","g","h","i","1" >>
Field         == << "f","i","e","l","d" >>
Empty         == << >>
Parens        == << "(", ")" >>

SanNames == { TempMinusC, TempUnderC, Eleven, TenUpper, NineAndOne,
              Field, Empty, Parens }

DupNames == { Ten, Empty, TempLower }

ScenarioCols == { << StationNameID, Lat, Lon >> }

SanColumnLists ==
    SeqsUpTo(SanNames, MaxCols)
      \cup ScenarioCols
      \cup { [k \in 1..m |-> nm] : m \in 1..MaxDup, nm \in DupNames }

\* two rows of distinct numbers under the given columns
TwoRows(cols) ==
    [r \in 1..2 |-> [idx |-> r - 1,
                     cells |-> [c \in 1..Len(cols) |-> NumCell(10 * r + c)]]]

SanFrames ==
    { [columns |-> cols, rows |-> rws] :
        cols \in SanColumnLists, rws \in {<< >>} }
      \cup { [columns |-> cols, rows |-> TwoRows(cols)] : cols \in SanColumnLists }

InitSan ==
    /\ pc = "san_for"
    /\ caller = "san"
    /\ attrs \in SanFrames
    /\ given = attrs
    /\ df = NoDf
    /\ lat_col = NoName /\ lon_col = NoName /\ guessed = NoGuess
    /\ work = NoDf /\ gdf_wgs84 = NoGdf /\ gdf_out = NoGdf
    /\ new_cols = << >> /\ used = {} /\ c_pos = 0
    /\ base = << >> /\ candidate = << >> /\ i = 1
    /\ attrs_safe = NoDf
    /\ inputs = NoInputs /\ show_preview = FALSE
    /\ dirs = {} /\ tmpdir = NoDir /\ ui = NoUi

NextSan == SanForNext \/ SanWhileBody \/ SanAssign \/ SanFinish

SpecSan == InitSan /\ [][NextSan]_vars

----------------------------------------------------------------------------
(* build_gdf_from_csv *)

\* position of a column label (labels of a parsed CSV are unique)
ColIndex(cols, name) == CHOOSE k \in 1..Len(cols) : cols[k] = name

\* value of a run of decimal digits
RECURSIVE DigitsValue(_)
DigitsValue(s) ==
    IF s = << >> THEN 0
    ELSE 10 * DigitsValue(SubSeq(s, 1, Len(s) - 1))
           + ((CHOOSE k \in 1..10 : DigitChars[k] = s[Len(s)]) - 1)

AllDigits(s) == s # << >> /\ \A k \in 1..Len(s) : IsDigit(s[k])

\* pd.to_numeric(..., errors="coerce") on one cell: a number stays, a missing
\* value stays missing, text becomes its number or, if it is no number, NaN
ToNumeric(cell) ==
    IF cell.k = "num" THEN cell
    ELSE IF cell.k = "nan" THEN NaN
    ELSE LET s == cell.s
         IN  IF AllDigits(s) THEN NumCell(DigitsValue(s))
             ELSE IF Len(s) >= 2 /\ s[1] = "-" /\ AllDigits(Tail(s))
                  THEN NumCell(0 - DigitsValue(Tail(s)))
             ELSE IF Len(s) >= 2 /\ s[1] = "+" /\ AllDigits(Tail(s))
                  THEN NumCell(DigitsValue(Tail(s)))
             ELSE NaN

\* work[col] = pd.to_numeric(work[col], errors="coerce")
CoerceColumn(w, col) ==
    LET c == ColIndex(w.columns, col)
    IN  [w EXCEPT !.rows =
            [r \in 1..Len(w.rows) |->
                [w.rows[r] EXCEPT !.cells[c] = ToNumeric(w.rows[r].cells[c])]]]

\* variant: only the first column of the subset is looked at
DropnaFirstOnly(w, subset) ==
    LET Keep(row) == row.cells[ColIndex(w.columns, subset[1])].k # "nan"
    IN  [w EXCEPT !.rows = SelectSeq(w.rows, Keep)]

\* work.dropna(subset=[...]): rows with a missing value in a subset column go
Dropna(w, subset) ==
    LET Keep(row) == \A j \in 1..Len(subset) :
                        row.cells[ColIndex(w.columns, subset[j])].k # "nan"
    IN  [w EXCEPT !.rows = SelectSeq(w.rows, Keep)]

\* Point(xy) for xy in zip(work[lon_col], work[lat_col])
Points(w, lat, lon) ==
    [r \in 1..Len(w.rows) |->
        [x |-> w.rows[r].cells[ColIndex(w.columns, lon)].n,
         y |-> w.rows[r].cells[ColIndex(w.columns, lat)].n]]

EPSG4326 == << "E","P","S","G",":","4","3","2","6" >>

\* work = df.copy()
BuildCopy ==
    /\ pc = "build_copy"
    /\ work' = df
    /\ pc' = "build_lat"
    /\ UNCHANGED << caller, df, given, lat_col, lon_col, guessed, gdf_wgs84,
                    gdf_out, attrs, new_cols, used, c_pos, base, candidate, i,
                    attrs_safe, inputs, show_preview, dirs, tmpdir, ui >>

\* work[lat_col] = pd.to_numeric(work[lat_col], errors="coerce")
BuildCoerceLat ==
    /\ pc = "build_lat"
    /\ work' = CoerceColumn(work, lat_col)
    /\ pc' = "build_lon"
    /\ UNCHANGED << caller, df, given, lat_col, lon_col, guessed, gdf_wgs84,
                    gdf_out, attrs, new_cols, used, c_pos, base, candidate, i,
                    attrs_safe, inputs, show_preview, dirs, tmpdir, ui >>

\* work[lon_col] = pd.to_numeric(work[lon_col], errors="coerce")
BuildCoerceLon ==
    /\ pc = "build_lon"
    /\ work' = CoerceColumn(work, lon_col)
    /\ pc' = "build_dropna"
    /\ UNCHANGED << caller, df, given, lat_col, lon_col, guessed, gdf_wgs84,
                    gdf_out, attrs, new_cols, used, c_pos, base, candidate, i,
                    attrs_safe, inputs, show_preview, dirs, tmpdir, ui >>

\* work = work.dropna(subset=[lat_col, lon_col])
BuildDropna ==
    /\ pc = "build_dropna"
    /\ work' = Dropna(work, << lat_col, lon_col >>)
    /\ pc' = "build_gdf"
    /\ UNCHANGED << caller, df, given, lat_col, lon_col, guessed, gdf_wgs84,
                    gdf_out, attrs, new_cols, used, c_pos, base, candidate, i,
                    attrs_safe, inputs, show_preview, dirs, tmpdir, ui >>

\* gdf = gpd.GeoDataFrame(work, geometry=[...], crs="EPSG:4326"); return gdf
BuildGdf ==
    /\ pc = "build_gdf"
    /\ gdf_wgs84' = [columns |-> work.columns, rows |-> work.rows,
                     geometry |-> Points(work, lat_col, lon_col), crs |-> EPSG4326]
    /\ pc' = IF caller = "app" THEN "empty_check" ELSE "build_done"
    /\ UNCHANGED << caller, df, given, lat_col, lon_col, guessed, work,
                    gdf_out, attrs, new_cols, used, c_pos, base, candidate, i,
                    attrs_safe, inputs, show_preview, dirs, tmpdir, ui >>

----------------------------------------------------------------------------
(* Specification of build_gdf_from_csv on its own: frames with the columns *)
(* of the spec's scenario, whose coordinate cells are numbers, numeric     *)
(* text, other text, or missing.                                           *)

A1       == << "A","-","1" >>
Txt30    == << "3","0" >>
Txt77    == << "7","7" >>
TxtAbc   == << "a","b","c" >>
Txt12a   == << "1","2","a" >>
TxtM200  == << "-","2","0","0" >>

LatCells == { StrCell(Txt30), StrCell(TxtAbc), StrCell(Txt12a), NaN, NumCell(95) }
LonCells == { StrCell(Txt77), StrCell(TxtM200), NaN }

\* frames over the given rows, with the default index 0, 1, ...
FramesOf(cols, rowCells, n) ==
    { [columns |-> cols,
       rows |-> [r \in 1..Len(cs) |-> [idx |-> r - 1, cells |-> cs[r]]]] :
         cs \in SeqsUpTo(rowCells, n) }

BuildRowCells == { << StrCell(A1), la, lo >> : la \in LatCells, lo \in LonCells }

BuildFrames == FramesOf(<< StationNameID, Lat, Lon >>, BuildRowCells, MaxBuildRows)

BuildSelections == { << Lat, Lon >>, << Lon, Lat >>, << Lat, Lat >>,
                     << StationNameID, Lon >> }

InitBuild ==
    /\ pc = "build_copy"
    /\ caller = "build"
    /\ df \in BuildFrames
    /\ given = df
    /\ \E sel \in BuildSelections : lat_col = sel[1] /\ lon_col = sel[2]
    /\ guessed = NoGuess
    /\ work = NoDf /\ gdf_wgs84 = NoGdf /\ gdf_out = NoGdf
    /\ attrs = NoDf
    /\ new_cols = << >> /\ used = {} /\ c_pos = 0
    /\ base = << >> /\ candidate = << >> /\ i = 1
    /\ attrs_safe = NoDf
    /\ inputs = NoInputs /\ show_preview = FALSE
    /\ dirs = {} /\ tmpdir = NoDir /\ ui = NoUi

NextBuild == BuildCopy \/ BuildCoerceLat \/ BuildCoerceLon \/ BuildDropna \/ BuildGdf

SpecBuild == InitBuild /\ [][NextBuild]_vars

----------------------------------------------------------------------------
(* guess_lat_lon_columns *)

IsSpace(ch) == ch \in { " ", "\t", "\n" }

\* str.strip
RECURSIVE Strip(_)
Strip(s) ==
    IF s = << >> THEN s
    ELSE IF IsSpace(s[1]) THEN Strip(Tail(s))
    ELSE IF IsSpace(s[Len(s)]) THEN Strip(SubSeq(s, 1, Len(s) - 1))
    ELSE s

IsLowerOrDigit(ch) == IsLower(ch) \/ IsDigit(ch)

\* variant: the name is not lowercased before the filter
normalize_col_no_lower(s) == SelectSeq(Strip(s), IsLowerOrDigit)

\* re.sub(r"[^a-z0-9]+", "", str(s).strip().lower())
normalize_col(s) == SelectSeq(LowerStr(Strip(s)), IsLowerOrDigit)

LAT_ALIASES ==
    { << "l","a","t" >>, << "l","a","t","i","t","u","d","e" >>, << "y" >>,
      << "y","c","o","o","r","d" >>,
      << "y","c","o","o","r","d","i","n","a","t","e" >> }

LON_ALIASES ==
    { << "l","o","n" >>, << "l","o","n","g" >>,
      << "l","o","n","g","i","t","u","d","e" >>, << "x" >>,
      << "x","c","o","o","r","d" >>,
      << "x","c","o","o","r","d","i","n","a","t","e" >> }

\* keys of {c: ... for c in df.columns}, in insertion order: a repeated label
\* keeps the place of its first occurrence
RECURSIVE DictKeys(_)
DictKeys(cols) ==
    IF cols = << >> THEN << >>
    ELSE LET front == DictKeys(SubSeq(cols, 1, Len(cols) - 1))
             last  == cols[Len(cols)]
         IN  IF last \in Range(front) THEN front ELSE Append(front, last)

\* variant: the last candidate is taken
FirstOrNoneLast(cands) == IF cands # << >> THEN cands[Len(cands)] ELSE NoName

\* candidates[0] if candidates else None
FirstOrNone(cands) == IF cands # << >> THEN cands[1] ELSE NoName

\* [c for c, n in norm_map.items() if n in aliases]
Candidates(cols, aliases) ==
    LET Match(c) == normalize_col(c) \in aliases
    IN  SelectSeq(DictKeys(cols), Match)

guess_lat_lon_columns(d) ==
    [lat |-> FirstOrNone(Candidates(d.columns, LAT_ALIASES)),
     lon |-> FirstOrNone(Candidates(d.columns, LON_ALIASES))]

\* guessed_lat, guessed_lon = guess_lat_lon_columns(df)
Guess ==
    /\ pc = "guess"
    /\ guessed' = guess_lat_lon_columns(df)
    /\ pc' = IF caller = "app" THEN "select" ELSE "guess_done"
    /\ UNCHANGED << caller, df, given, lat_col, lon_col, work, gdf_wgs84,
                    gdf_out, attrs, new_cols, used, c_pos, base, candidate, i,
                    attrs_safe, inputs, show_preview, dirs, tmpdir, ui >>

----------------------------------------------------------------------------
(* Specification of guess_lat_lon_columns on its own: every list of column *)
(* names drawn from GuessNames (repeats included), with and without rows.  *)

LatUpperSp == << " ","L","A","T"," " >>
YCoordName == << "Y","-","C","o","o","r","d" >>
Latin      == << "L","a","t","i","n" >>
LongDot    == << "L","o","n","g","." >>
XName      == << "X" >>
Lat1       == << "l","a","t","_","1" >>

GuessNames == { Lat, LatUpperSp, YCoordName, Latin, Lon, LongDot, XName, Lat1 }

OneRow(cols, v) ==
    << [idx |-> 0, cells |-> [c \in 1..Len(cols) |-> NumCell(v + c)]] >>

GuessFrames ==
    { [columns |-> cols, rows |-> << >>] : cols \in SeqsUpTo(GuessNames, MaxGuessCols) }
      \cup { [columns |-> cols, rows |-> OneRow(cols, 30)] :
                cols \in SeqsUpTo(GuessNames, MaxGuessCols) }

InitGuess ==
    /\ pc = "guess"
    /\ caller = "guess"
    /\ df \in GuessFrames
    /\ given = df
    /\ lat_col = NoName /\ lon_col = NoName /\ guessed = NoGuess
    /\ work = NoDf /\ gdf_wgs84 = NoGdf /\ gdf_out = NoGdf
    /\ attrs = NoDf
    /\ new_cols = << >> /\ used = {} /\ c_pos = 0
    /\ base = << >> /\ candidate = << >> /\ i = 1
    /\ attrs_safe = NoDf
    /\ inputs = NoInputs /\ show_preview = FALSE
    /\ dirs = {} /\ tmpdir = NoDir /\ ui = NoUi

NextGuess == Guess

SpecGuess == InitGuess /\ [][NextGuess]_vars

----------------------------------------------------------------------------
(* The script: one run of app.py from top to bottom per user interaction. *)

\* the calls and locals of the helpers, as they are when no call is active
HelpersIdle ==
    /\ work' = NoDf
    /\ new_cols' = << >> /\ used' = {} /\ c_pos' = 0
    /\ base' = << >> /\ candidate' = << >> /\ i' = 1

AppRowCells ==
    { << StrCell(A1), NumCell(30), NumCell(77) >>,
      << StrCell(A1), NumCell(95), NumCell(77) >>,
      << StrCell(A1), StrCell(Txt30), StrCell(TxtM200) >>,
      << StrCell(A1), StrCell(TxtAbc), NumCell(77) >> }

\* what pd.read_csv can return for the upload
AppFrames ==
    FramesOf(<< StationNameID, Lat, Lon >>, AppRowCells, MaxRows)
      \cup FramesOf(<< TempMinusC, TempUnderC, Lat, Lon >>,
                    { << NumCell(12), NumCell(13), NumCell(95), NumCell(77) >> }, 1)

\* uploaded is None: nothing but the header and the footer is rendered
RunNoUpload ==
    /\ pc = "idle"
    /\ inputs' = [inputs EXCEPT !.uploaded = FALSE]
    /\ ui' = [ui EXCEPT !.result = "no upload"]
    /\ pc' = "done"
    /\ UNCHANGED << caller, df, given, lat_col, lon_col, guessed, work, gdf_wgs84,
                    gdf_out, attrs, new_cols, used, c_pos, base, candidate, i,
                    attrs_safe, show_preview, dirs, tmpdir >>

\* pd.read_csv raises: st.error(...); st.stop()
ReadCsvFail ==
    /\ pc = "idle"
    /\ inputs' = [inputs EXCEPT !.uploaded = TRUE]
    /\ ui' = [ui EXCEPT !.errors = @ \cup { "Could not read the CSV" },
                        !.result = "ParseError"]
    /\ pc' = "stopped"
    /\ UNCHANGED << caller, df, given, lat_col, lon_col, guessed, work, gdf_wgs84,
                    gdf_out, attrs, new_cols, used, c_pos, base, candidate, i,
                    attrs_safe, show_preview, dirs, tmpdir >>

\* df = pd.read_csv(...); if df.empty: st.warning("CSV is empty."); st.stop()
ReadCsvEmpty ==
    /\ pc = "idle"
    /\ \E d \in AppFrames :
          /\ d.rows = << >>
          /\ df' = d
          /\ given' = d
    /\ inputs' = [inputs EXCEPT !.uploaded = TRUE]
    /\ ui' = [ui EXCEPT !.warnings = @ \cup { "CSV is empty." },
                        !.result = "empty csv"]
    /\ pc' = "stopped"
    /\ UNCHANGED << caller, lat_col, lon_col, guessed, work, gdf_wgs84,
                    gdf_out, attrs, new_cols, used, c_pos, base, candidate, i,
                    attrs_safe, show_preview, dirs, tmpdir >>

\* df = pd.read_csv(...), not empty
ReadCsv ==
    /\ pc = "idle"
    /\ \E d \in AppFrames :
          /\ d.rows # << >>
          /\ df' = d
          /\ given' = d
    /\ inputs' = [inputs EXCEPT !.uploaded = TRUE]
    /\ pc' = "guess"
    /\ UNCHANGED << caller, lat_col, lon_col, guessed, work, gdf_wgs84,
                    gdf_out, attrs, new_cols, used, c_pos, base, candidate, i,
                    attrs_safe, show_preview, dirs, tmpdir, ui >>

\* index=df.columns.get_loc(guessed) if guessed in df.columns else 0
DefaultColumn(g, d) == IF g \in Range(d.columns) THEN g ELSE d.columns[1]

WGS84Option  == "EPSG:4326 (WGS84)"
CustomOption == "Custom EPSG"

Txt4326   == << "4","3","2","6" >>
Txt3857Sp == << " ","3","8","5","7"," " >>
EpsgTexts == { Txt4326, Txt3857Sp, TxtAbc, << >> }

EpsgPrefix == << "E","P","S","G",":" >>

\* out_crs as lines 307-311 compute it
OutCrs(opt, text) == IF opt = WGS84Option THEN EPSG4326 ELSE EpsgPrefix \o Strip(text)

\* the two selectboxes for the coordinate columns, and the output CRS widgets
Select ==
    /\ pc = "select"
    /\ lat_col' \in { DefaultColumn(guessed.lat, df), df.columns[1] }
    /\ lon_col' \in { DefaultColumn(guessed.lon, df), lat_col' }
    /\ \E opt \in { WGS84Option, CustomOption } :
       \E text \in (IF opt = WGS84Option THEN { << >> } ELSE EpsgTexts) :
          inputs' = [inputs EXCEPT !.crs_opt = opt, !.epsg = text,
                                   !.out_crs = OutCrs(opt, text)]
    /\ pc' = "build_copy"
    /\ UNCHANGED << caller, df, given, guessed, work, gdf_wgs84,
                    gdf_out, attrs, new_cols, used, c_pos, base, candidate, i,
                    attrs_safe, show_preview, dirs, tmpdir, ui >>

\* variant: the run goes on with an empty GeoDataFrame
EmptyCheckNoStop ==
    /\ pc = "empty_check"
    /\ Len(gdf_wgs84.rows) = 0
    /\ pc' = "buttons"
    /\ UNCHANGED << caller, df, given, lat_col, lon_col, guessed, work, gdf_wgs84,
                    gdf_out, attrs, new_cols, used, c_pos, base, candidate, i,
                    attrs_safe, inputs, show_preview, dirs, tmpdir, ui >>

\* if len(gdf_wgs84) == 0: st.error("No valid rows ..."); st.stop()
EmptyCheckStop ==
    /\ pc = "empty_check"
    /\ Len(gdf_wgs84.rows) = 0
    /\ ui' = [ui EXCEPT !.errors = @ \cup { "No valid rows after cleaning lat/lon" },
                        !.result = "EmptyResultError"]
    /\ pc' = "stopped"
    /\ UNCHANGED << caller, df, given, lat_col, lon_col, guessed, work, gdf_wgs84,
                    gdf_out, attrs, new_cols, used, c_pos, base, candidate, i,
                    attrs_safe, inputs, show_preview, dirs, tmpdir >>

EmptyCheckPass ==
    /\ pc = "empty_check"
    /\ Len(gdf_wgs84.rows) # 0
    /\ pc' = "buttons"
    /\ UNCHANGED << caller, df, given, lat_col, lon_col, guessed, work, gdf_wgs84,
                    gdf_out, attrs, new_cols, used, c_pos, base, candidate, i,
                    attrs_safe, inputs, show_preview, dirs, tmpdir, ui >>

\* the three buttons; at most one of them is pressed in a run
Buttons ==
    /\ pc = "buttons"
    /\ \E b \in { "none", "preview", "hide", "convert" } :
          /\ show_preview' = IF b = "preview" THEN TRUE
                             ELSE IF b = "hide" THEN FALSE
                             ELSE show_preview
          /\ inputs' = [inputs EXCEPT !.convert_btn = (b = "convert")]
    /\ pc' = "preview"
    /\ UNCHANGED << caller, df, given, lat_col, lon_col, guessed, work, gdf_wgs84,
                    gdf_out, attrs, new_cols, used, c_pos, base, candidate, i,
                    attrs_safe, dirs, tmpdir, ui >>

Abs(n) == IF n < 0 THEN 0 - n ELSE n

\* positions of the points with abs(y) > 90 or abs(x) > 180
BadPoints(g) ==
    { r \in 1..Len(g.geometry) :
        Abs(g.geometry[r].y) > 90 \/ Abs(g.geometry[r].x) > 180 }

OutOfRangeWarning == "points look out-of-range for WGS84 degrees"

\* if st.session_state.show_preview: (not taken)
PreviewSkip ==
    /\ pc = "preview"
    /\ ~ show_preview
    /\ pc' = "convert"
    /\ UNCHANGED << caller, df, given, lat_col, lon_col, guessed, work, gdf_wgs84,
                    gdf_out, attrs, new_cols, used, c_pos, base, candidate, i,
                    attrs_safe, inputs, show_preview, dirs, tmpdir, ui >>

\* variant: the points that look out of range are removed from the frame
PreviewShowDropping ==
    /\ pc = "preview"
    /\ show_preview
    /\ LET keep == { r \in 1..Len(gdf_wgs84.rows) : r \notin BadPoints(gdf_wgs84) }
           Kept(sq) == LET F[n \in 0..Len(sq)] ==
                               IF n = 0 THEN << >>
                               ELSE IF n \in keep THEN Append(F[n - 1], sq[n])
                               ELSE F[n - 1]
                       IN  F[Len(sq)]
       IN  /\ gdf_wgs84' = [gdf_wgs84 EXCEPT !.rows = Kept(gdf_wgs84.rows),
                                             !.geometry = Kept(gdf_wgs84.geometry)]
           /\ ui' = [ui EXCEPT
                 !.bad = Cardinality(BadPoints(gdf_wgs84)),
                 !.warnings = IF Cardinality(BadPoints(gdf_wgs84)) > 0
                              THEN @ \cup { OutOfRangeWarning } ELSE @,
                 !.map_shown = TRUE]
    /\ pc' = "convert"
    /\ UNCHANGED << caller, df, given, lat_col, lon_col, guessed, work,
                    gdf_out, attrs, new_cols, used, c_pos, base, candidate, i,
                    attrs_safe, inputs, show_preview, dirs, tmpdir >>

\* bad = gdf_wgs84[...]; if len(bad) > 0: st.warning(...); preview_map; st_folium
PreviewShow ==
    /\ pc = "preview"
    /\ show_preview
    /\ ui' = [ui EXCEPT
                 !.bad = Cardinality(BadPoints(gdf_wgs84)),
                 !.warnings = IF Cardinality(BadPoints(gdf_wgs84)) > 0
                              THEN @ \cup { OutOfRangeWarning } ELSE @,
                 !.map_shown = TRUE]
    /\ pc' = "convert"
    /\ UNCHANGED << caller, df, given, lat_col, lon_col, guessed, work, gdf_wgs84,
                    gdf_out, attrs, new_cols, used, c_pos, base, candidate, i,
                    attrs_safe, inputs, show_preview, dirs, tmpdir >>

\* if convert_btn: (not taken); the run ends with the footer
ConvertSkip ==
    /\ pc = "convert"
    /\ ~ inputs.convert_btn
    /\ ui' = [ui EXCEPT !.result = "no conversion"]
    /\ pc' = "done"
    /\ UNCHANGED << caller, df, given, lat_col, lon_col, guessed, work, gdf_wgs84,
                    gdf_out, attrs, new_cols, used, c_pos, base, candidate, i,
                    attrs_safe, inputs, show_preview, dirs, tmpdir >>

\* the codes the CRS database knows
Txt3857  == << "3","8","5","7" >>
Txt32643 == << "3","2","6","4","3" >>
KnownEpsgCodes == { Txt4326, Txt3857, Txt32643 }

IsKnownCrs(crs) == \E code \in KnownEpsgCodes : crs = EpsgPrefix \o code

\* the coordinate transform of to_crs, as a stand-in that moves every point
\* and differs between target systems
Transform(pt, crs) ==
    IF crs = EpsgPrefix \o Txt3857
    THEN [x |-> 111 * pt.x, y |-> 111 * pt.y + 1]
    ELSE IF crs = EpsgPrefix \o Txt32643
    THEN [x |-> 100 * pt.x + 500, y |-> 110 * pt.y]
    ELSE pt

\* gdf.to_crs(crs)
ToCrs(g, crs) ==
    [g EXCEPT !.geometry = [r \in 1..Len(g.geometry) |-> Transform(g.geometry[r], crs)],
              !.crs = crs]

\* gdf_out.drop(columns="geometry")
DropGeometry(g) == [columns |-> g.columns, rows |-> g.rows]

\* gdf_out = gdf_wgs84.copy(); out_crs == "EPSG:4326": no reprojection;
\* attrs = gdf_out.drop(columns="geometry"); safe_shapefile_columns(attrs) is entered
ConvertKeepCrs ==
    /\ pc = "convert"
    /\ inputs.convert_btn
    /\ inputs.out_crs = EPSG4326
    /\ gdf_out' = gdf_wgs84
    /\ attrs' = DropGeometry(gdf_out')
    /\ pc' = "san_for"
    /\ UNCHANGED << caller, df, given, lat_col, lon_col, guessed, work, gdf_wgs84,
                    new_cols, used, c_pos, base, candidate, i,
                    attrs_safe, inputs, show_preview, dirs, tmpdir, ui >>

\* gdf_out = gdf_out.to_crs(out_crs) succeeds; attrs = ...; the sanitizer is entered
ConvertToCrs ==
    /\ pc = "convert"
    /\ inputs.convert_btn
    /\ inputs.out_crs # EPSG4326
    /\ IsKnownCrs(inputs.out_crs)
    /\ gdf_out' = ToCrs(gdf_wgs84, inputs.out_crs)
    /\ attrs' = DropGeometry(gdf_out')
    /\ pc' = "san_for"
    /\ UNCHANGED << caller, df, given, lat_col, lon_col, guessed, work, gdf_wgs84,
                    new_cols, used, c_pos, base, candidate, i,
                    attrs_safe, inputs, show_preview, dirs, tmpdir, ui >>

\* variant: the failure is swallowed and the run goes on with the WGS84 data
ConvertToCrsFailSwallowed ==
    /\ pc = "convert"
    /\ inputs.convert_btn
    /\ inputs.out_crs # EPSG4326
    /\ ~ IsKnownCrs(inputs.out_crs)
    /\ gdf_out' = gdf_wgs84
    /\ attrs' = DropGeometry(gdf_out')
    /\ pc' = "san_for"
    /\ UNCHANGED << caller, df, given, lat_col, lon_col, guessed, work, gdf_wgs84,
                    new_cols, used, c_pos, base, candidate, i,
                    attrs_safe, inputs, show_preview, dirs, tmpdir, ui >>

\* to_crs raises: st.error("CRS reprojection failed: ..."); st.stop()
ConvertToCrsFail ==
    /\ pc = "convert"
    /\ inputs.convert_btn
    /\ inputs.out_crs # EPSG4326
    /\ ~ IsKnownCrs(inputs.out_crs)
    /\ gdf_out' = gdf_wgs84
    /\ ui' = [ui EXCEPT !.errors = @ \cup { "CRS reprojection failed" },
                        !.result = "ReprojectionError"]
    /\ pc' = "stopped"
    /\ UNCHANGED << caller, df, given, lat_col, lon_col, guessed, work, gdf_wgs84,
                    attrs, new_cols, used, c_pos, base, candidate, i,
                    attrs_safe, inputs, show_preview, dirs, tmpdir >>

TmpNames == { "tmpA", "tmpB" }

\* with tempfile.TemporaryDirectory() as tmpdir: a new, empty directory
Mkdtemp ==
    /\ pc = "mkdtemp"
    /\ \E name \in TmpNames \ { d.name : d \in dirs } :
          /\ tmpdir' = name
          /\ dirs' = dirs \cup { [name |-> name, files |-> {}] }
    /\ pc' = "to_file"
    /\ UNCHANGED << caller, df, given, lat_col, lon_col, guessed, work, gdf_wgs84,
                    gdf_out, attrs, new_cols, used, c_pos, base, candidate, i,
                    attrs_safe, inputs, show_preview, ui >>

\* gdf_safe = gpd.GeoDataFrame(attrs_safe, geometry=gdf_out.geometry, crs=gdf_out.crs)
gdf_safe ==
    [columns |-> attrs_safe.columns, rows |-> attrs_safe.rows,
     geometry |-> gdf_out.geometry, crs |-> gdf_out.crs]

\* variant: the directory outlives the failed run
ToFileFailLeak ==
    /\ pc = "to_file"
    /\ ui' = [ui EXCEPT !.errors = @ \cup { "Failed to write shapefile" },
                        !.result = "WriteError"]
    /\ pc' = "stopped"
    /\ UNCHANGED << caller, df, given, lat_col, lon_col, guessed, work, gdf_wgs84,
                    gdf_out, attrs, new_cols, used, c_pos, base, candidate, i,
                    attrs_safe, inputs, show_preview, dirs, tmpdir >>

\* gdf_safe.to_file raises: st.error(...); st.stop() leaves the with block,
\* which removes the directory and whatever was written into it
ToFileFail ==
    /\ pc = "to_file"
    /\ ui' = [ui EXCEPT !.errors = @ \cup { "Failed to write shapefile" },
                        !.result = "WriteError"]
    /\ dirs' = { d \in dirs : d.name # tmpdir }
    /\ tmpdir' = NoDir
    /\ pc' = "stopped"
    /\ UNCHANGED << caller, df, given, lat_col, lon_col, guessed, work, gdf_wgs84,
                    gdf_out, attrs, new_cols, used, c_pos, base, candidate, i,
                    attrs_safe, inputs, show_preview >>

\* gdf_safe.to_file(shp_path, driver="ESRI Shapefile")
ToFile ==
    /\ pc = "to_file"
    /\ dirs' = { IF d.name = tmpdir THEN [d EXCEPT !.files = { gdf_safe }] ELSE d :
                   d \in dirs }
    /\ pc' = "zip"
    /\ UNCHANGED << caller, df, given, lat_col, lon_col, guessed, work, gdf_wgs84,
                    gdf_out, attrs, new_cols, used, c_pos, base, candidate, i,
                    attrs_safe, inputs, show_preview, tmpdir, ui >>

\* zip_bytes = to_download_zip(tmpdir); the with block ends and removes the directory
Zip ==
    /\ pc = "zip"
    /\ ui' = [ui EXCEPT !.zip_bytes = UNION { d.files : d \in { e \in dirs : e.name = tmpdir } }]
    /\ dirs' = { d \in dirs : d.name # tmpdir }
    /\ tmpdir' = NoDir
    /\ pc' = "download"
    /\ UNCHANGED << caller, df, given, lat_col, lon_col, guessed, work, gdf_wgs84,
                    gdf_out, attrs, new_cols, used, c_pos, base, candidate, i,
                    attrs_safe, inputs, show_preview >>

\* st.success(f"Created shapefile with {len(gdf_safe)} points."); st.download_button(...)
Download ==
    /\ pc = "download"
    /\ ui' = [ui EXCEPT !.points = Len(gdf_safe.rows), !.download = TRUE,
                        !.result = "ok"]
    /\ pc' = "done"
    /\ UNCHANGED << caller, df, given, lat_col, lon_col, guessed, work, gdf_wgs84,
                    gdf_out, attrs, new_cols, used, c_pos, base, candidate, i,
                    attrs_safe, inputs, show_preview, dirs, tmpdir >>

\* the run is over; the next interaction reruns the script from the top with
\* nothing kept but the session state and the disk
EndRun ==
    /\ pc \in { "done", "stopped" }
    /\ pc' = "idle"
    /\ df' = NoDf /\ given' = NoDf
    /\ lat_col' = NoName /\ lon_col' = NoName /\ guessed' = NoGuess
    /\ gdf_wgs84' = NoGdf /\ gdf_out' = NoGdf
    /\ attrs' = NoDf /\ attrs_safe' = NoDf
    /\ HelpersIdle
    /\ inputs' = NoInputs
    /\ tmpdir' = NoDir
    /\ ui' = NoUi
    /\ UNCHANGED << caller, show_preview, dirs >>

InitApp ==
    /\ pc = "idle"
    /\ caller = "app"
    /\ df = NoDf /\ given = NoDf
    /\ lat_col = NoName /\ lon_col = NoName /\ guessed = NoGuess
    /\ work = NoDf /\ gdf_wgs84 = NoGdf /\ gdf_out = NoGdf
    /\ attrs = NoDf
    /\ new_cols = << >> /\ used = {} /\ c_pos = 0
    /\ base = << >> /\ candidate = << >> /\ i = 1
    /\ attrs_safe = NoDf
    /\ inputs = NoInputs /\ show_preview = FALSE
    /\ dirs = {} /\ tmpdir = NoDir /\ ui = NoUi

NextApp ==
    \/ RunNoUpload \/ ReadCsvFail \/ ReadCsvEmpty \/ ReadCsv
    \/ Guess \/ Select
    \/ BuildCopy \/ BuildCoerceLat \/ BuildCoerceLon \/ BuildDropna \/ BuildGdf
    \/ EmptyCheckStop \/ EmptyCheckPass
    \/ Buttons \/ PreviewSkip \/ PreviewShow
    \/ ConvertSkip \/ ConvertKeepCrs \/ ConvertToCrs \/ ConvertToCrsFail
    \/ SanForNext \/ SanWhileBody \/ SanAssign \/ SanFinish
    \/ Mkdtemp \/ ToFileFail \/ ToFile \/ Zip \/ Download
    \/ EndRun

SpecApp == InitApp /\ [][NextApp]_vars

----------------------------------------------------------------------------
(* Properties of safe_shapefile_columns (checked under SpecSan). *)

IsFieldName(nm) ==
    /\ Len(nm) >= 1
    /\ Len(nm) <= 10
    /\ \A k \in 1..Len(nm) : IsFieldChar(nm[k])

PairwiseDistinctNoCase(names) ==
    \A j, k \in 1..Len(names) : j < k => LowerStr(names[j]) # LowerStr(names[k])

\* C1: the names assigned by safe_shapefile_columns are pairwise distinct
\* when compared case-insensitively, each has length 1..10 and each consists
\* only of letters, digits and underscore; this holds of the names assigned
\* so far at every point of the loop and of the returned frame.
C1_Thm ==
    /\ \A k \in 1..Len(new_cols) : IsFieldName(new_cols[k])
    /\ PairwiseDistinctNoCase(new_cols)
    /\ pc = "san_done" =>
          /\ Len(attrs_safe.columns) = Len(given.columns)
          /\ \A k \in 1..Len(attrs_safe.columns) : IsFieldName(attrs_safe.columns[k])
          /\ PairwiseDistinctNoCase(attrs_safe.columns)

\* a finished call on three columns, two of which collide case-insensitively
\* after replacement, and one of which is longer than 10 characters
C1_Wit ==
    /\ pc = "san_done"
    /\ Len(given.columns) = 3
    /\ \E j, k \in 1..3 :
          /\ j < k
          /\ given.columns[j] # given.columns[k]
          /\ LowerStr(Base(given.columns[j])) = LowerStr(Base(given.columns[k]))
    /\ \E k \in 1..3 : Len(given.columns[k]) > 10

StationNam == << "S","t","a","t","i","o","n","N","a","m" >>
Station_Na == << "S","t","a","t","i","o","n","_","N","a" >>

\* C7 (as stated): for the columns ["Station Name (ID)", "Lat", "Lon"] the
\* column "Station Name (ID)" is mapped to "StationNam".
C7_Orig ==
    (pc = "san_done" /\ given.columns = << StationNameID, Lat, Lon >>)
        => attrs_safe.columns[1] = StationNam

\* C7 (amended): for the columns ["Station Name (ID)", "Lat", "Lon"] the
\* column "Station Name (ID)" is mapped to "Station_Na": every illegal
\* character is replaced by an underscore before the cut to 10 characters,
\* and no collision suffix is added.
C7_Thm ==
    (pc = "san_done" /\ given.columns = << StationNameID, Lat, Lon >>)
        => attrs_safe.columns = << Station_Na, Lat, Lon >>

C7_Wit ==
    /\ pc = "san_done"
    /\ given.columns = << StationNameID, Lat, Lon >>
    /\ Len(attrs_safe.columns) = 3

\* the names a column c can be given: its base, or a cut of its base
\* followed by one of the first n decimal suffixes
NamesFrom(c, n) ==
    { Base(c) } \cup
    { SubSeq(Base(c), 1, m) \o Str(s) : m \in 0..Len(Base(c)), s \in 1..n }

\* C8: safe_shapefile_columns changes names only: the output has as many
\* columns as the input, the i-th output name is derived from the i-th input
\* column, the rows (index, order, every cell) are those of the input, and
\* the frame that was passed in is never changed.
C8_Thm ==
    /\ caller = "san" => attrs = given
    /\ pc = "san_done" =>
          /\ Len(attrs_safe.columns) = Len(given.columns)
          /\ attrs_safe.rows = given.rows
          /\ \A k \in 1..Len(given.columns) :
                attrs_safe.columns[k] \in NamesFrom(given.columns[k], Len(given.columns))

\* a finished call on a frame with rows in which some name was changed
C8_Wit ==
    /\ pc = "san_done"
    /\ Len(given.rows) = 2
    /\ Len(given.columns) = 3
    /\ \E k \in 1..3 : attrs_safe.columns[k] # given.columns[k]
    /\ \E k \in 1..3 : attrs_safe.columns[k] = given.columns[k]

\* the name the k-th column must get, given the names of the earlier ones
Suffixed(b, n) ==
    LET room == 10 - Len(Str(n))
    IN  (IF Len(b) <= room THEN b ELSE SubSeq(b, 1, room)) \o Str(n)
Collides(nm, earlier) == \E j \in 1..Len(earlier) : LowerStr(earlier[j]) = LowerStr(nm)
ExpectedName(b, earlier) ==
    IF ~ Collides(b, earlier) THEN b
    ELSE LET free == { n \in 1..(Len(earlier) + 1) :
                          ~ Collides(Suffixed(b, n), earlier) }
             n0   == CHOOSE n \in free : \A m \in free : n <= m
         IN  Suffixed(b, n0)

\* C9 (as stated): ... two columns with the same base get the base and the
\* base with suffix 1 (the base cut to 9 characters when it has 10).
C9_Orig ==
    (pc = "san_done" /\ Len(given.columns) = 2
       /\ Base(given.columns[1]) = Base(given.columns[2])) =>
          /\ attrs_safe.columns[1] = Base(given.columns[1])
          /\ attrs_safe.columns[2] = Suffixed(Base(given.columns[1]), 1)
          /\ attrs_safe.columns[1] # attrs_safe.columns[2]

\* C9 (amended): columns are handled left to right and compared only with
\* the names given to earlier columns: a base that does not collide is kept,
\* otherwise the name is the base cut to (10 - length of suffix) characters
\* followed by the smallest decimal suffix i >= 1 that does not collide.
\* Two columns with the same base get the base and the base with suffix 1,
\* except that a 10-character base whose cut to 9 characters plus "1" is the
\* base itself gets suffix 2; the two names are never the same.
C9_Thm ==
    /\ \A k \in 1..Len(new_cols) :
          new_cols[k] = ExpectedName(Base(given.columns[k]), SubSeq(new_cols, 1, k - 1))
    /\ (pc = "san_done" /\ Len(given.columns) = 2
          /\ Base(given.columns[1]) = Base(given.columns[2])) =>
          LET b == Base(given.columns[1])
              n == IF LowerStr(Suffixed(b, 1)) = LowerStr(b) THEN 2 ELSE 1
          IN  /\ attrs_safe.columns[1] = b
              /\ attrs_safe.columns[2] = Suffixed(b, n)
              /\ LowerStr(attrs_safe.columns[1]) # LowerStr(attrs_safe.columns[2])

\* a finished call in which a column needed a two-digit suffix, so that its
\* ten-character base was cut to eight characters
C9_Wit ==
    /\ pc = "san_done"
    /\ \E k \in 1..Len(attrs_safe.columns) :
          attrs_safe.columns[k] = << "a","b","c","d","e","f","g","h","1","0" >>

----------------------------------------------------------------------------
(* Properties of build_gdf_from_csv (checked under SpecBuild). *)

\* the text of a number: an optional sign followed by one or more digits
IsNumberText(s) ==
    LET body == IF s # << >> /\ s[1] \in { "-", "+" } THEN Tail(s) ELSE s
    IN  /\ body # << >>
        /\ \A k \in 1..Len(body) : IsDigit(body[k])

ParsesAsNumber(cell) ==
    \/ cell.k = "num"
    \/ cell.k = "str" /\ IsNumberText(cell.s)

\* row r of frame d has a number in both chosen columns
ValidRow(d, r, lat, lon) ==
    /\ ParsesAsNumber(d.rows[r].cells[ColIndex(d.columns, lat)])
    /\ ParsesAsNumber(d.rows[r].cells[ColIndex(d.columns, lon)])

IndexLabels(rws) == [r \in 1..Len(rws) |-> rws[r].idx]

\* index labels of the valid rows of d, in the order of d
RECURSIVE ValidLabels(_, _, _, _)
ValidLabels(d, n, lat, lon) ==
    IF n = 0 THEN << >>
    ELSE ValidLabels(d, n - 1, lat, lon)
            \o (IF ValidRow(d, n, lat, lon) THEN << d.rows[n].idx >> ELSE << >>)

rows_retained == Len(gdf_wgs84.rows)
rows_dropped ==
    Cardinality({ r \in 1..Len(given.rows) : ~ ValidRow(given, r, lat_col, lon_col) })

\* C5: build_gdf_from_csv retains exactly the rows in which both the latitude
\* and the longitude value parse as numbers, in their original order, and
\* drops every other row without raising, so that rows_dropped +
\* rows_retained is the original row count; there is one point per retained row.
C5_Thm ==
    pc = "build_done" =>
        /\ IndexLabels(gdf_wgs84.rows)
              = ValidLabels(given, Len(given.rows), lat_col, lon_col)
        /\ rows_dropped + rows_retained = Len(given.rows)
        /\ Len(gdf_wgs84.geometry) = rows_retained
        /\ ui.errors = {}

\* a finished call on two rows, one of which has the latitude "abc" and is
\* the only row dropped
C5_Wit ==
    /\ pc = "build_done"
    /\ lat_col = Lat /\ lon_col = Lon
    /\ Len(given.rows) = 2
    /\ given.rows[1].cells[2] = StrCell(TxtAbc)
    /\ rows_dropped = 1
    /\ IndexLabels(gdf_wgs84.rows) = << 1 >>

----------------------------------------------------------------------------
(* Properties of guess_lat_lon_columns (checked under SpecGuess). *)

\* a name lowercased, with every non-alphanumeric character removed
NormalizedName(s) == SelectSeq(LowerStr(s), IsLowerOrDigit)

\* the first column, in column order, whose normalized name is an alias
FirstMatch(cols, aliases) ==
    LET hits == { k \in 1..Len(cols) : NormalizedName(cols[k]) \in aliases }
    IN  IF hits = {} THEN NoName
        ELSE cols[CHOOSE k \in hits : \A m \in hits : k <= m]

\* C6: guess_lat_lon_columns returns as latitude column the first column
\* whose normalized name is in the latitude alias set, likewise for
\* longitude, and None for a set no column matches; the result is a function
\* of the column names alone (frames with and without rows agree).
C6_Thm ==
    pc = "guess_done" =>
        /\ guessed.lat = FirstMatch(given.columns, LAT_ALIASES)
        /\ guessed.lon = FirstMatch(given.columns, LON_ALIASES)
        /\ df = given

\* a finished call on a frame with rows in which two differently written
\* columns match the latitude aliases and none matches the longitude aliases
C6_Wit ==
    /\ pc = "guess_done"
    /\ given.rows # << >>
    /\ Len(given.columns) = 3
    /\ given.columns[2] # given.columns[3]
    /\ NormalizedName(given.columns[1]) \notin LAT_ALIASES
    /\ NormalizedName(given.columns[2]) \in LAT_ALIASES
    /\ NormalizedName(given.columns[3]) \in LAT_ALIASES
    /\ guessed.lat = given.columns[2]
    /\ guessed.lon = NoName

----------------------------------------------------------------------------
(* Properties of a script run (checked under SpecApp). *)

Selected == lat_col # NoName /\ lon_col # NoName

\* no row of the uploaded frame has a number in both chosen columns
AllRowsInvalid ==
    /\ given # NoDf
    /\ Selected
    /\ \A r \in 1..Len(given.rows) : ~ ValidRow(given, r, lat_col, lon_col)

\* C2: when no row has both a valid latitude and a valid longitude, the run
\* stops with the empty-result failure: no point is constructed, and the
\* preview, the reprojection, the temporary directory, the shapefile write
\* and the download are never reached.
C2_Thm ==
    AllRowsInvalid =>
        /\ pc \in { "build_copy", "build_lat", "build_lon", "build_dropna",
                    "build_gdf", "empty_check", "stopped" }
        /\ gdf_wgs84.geometry = << >>
        /\ ~ ui.map_shown
        /\ gdf_out = NoGdf
        /\ dirs = {} /\ tmpdir = NoDir
        /\ ui.zip_bytes = {} /\ ~ ui.download
        /\ pc = "stopped" => ui.result = "EmptyResultError"

\* a run over two rows, both invalid, that has stopped with the empty result
C2_Wit ==
    /\ pc = "stopped"
    /\ ui.result = "EmptyResultError"
    /\ AllRowsInvalid
    /\ lat_col = Lat /\ lon_col = Lon
    /\ Len(given.rows) = 2

\* the requested output CRS is a code the CRS database does not know
UnknownOutCrs == inputs.out_crs # << >> /\ ~ IsKnownCrs(inputs.out_crs)

\* C3: when the requested output CRS is an unrecognized or malformed code,
\* a conversion ends with the reprojection failure: the sanitizer, the
\* temporary directory and the shapefile write are never reached, nothing is
\* written, no download is offered and the WGS84 data is not emitted instead.
C3_Thm ==
    UnknownOutCrs =>
        /\ pc \notin { "san_for", "san_while", "mkdtemp", "to_file", "zip", "download" }
        /\ dirs = {} /\ tmpdir = NoDir
        /\ ui.zip_bytes = {} /\ ~ ui.download
        /\ ui.result # "ok"
        /\ (inputs.convert_btn /\ pc \in { "done", "stopped" })
              => ui.result = "ReprojectionError"

\* a conversion with the custom code "abc", requested while the preview is
\* shown, that has stopped with the reprojection failure
C3_Wit ==
    /\ pc = "stopped"
    /\ inputs.convert_btn
    /\ inputs.epsg = TxtAbc
    /\ ui.map_shown
    /\ ui.result = "ReprojectionError"

\* C4: the temporary directory is created new and empty for a conversion and
\* is gone when the run ends, whether the write and packaging succeeded, the
\* reprojection failed (no directory is ever created) or the write failed;
\* between runs no temporary directory exists.
C4_Thm ==
    /\ pc \in { "idle", "done", "stopped", "download" } => (dirs = {} /\ tmpdir = NoDir)
    /\ pc = "to_file" => dirs = { [name |-> tmpdir, files |-> {}] }
    /\ pc = "zip" => dirs = { [name |-> tmpdir, files |-> { gdf_safe }] }
    /\ pc \notin { "to_file", "zip" } => dirs = {}

\* a run whose shapefile write failed inside the directory's scope
C4_Wit ==
    /\ pc = "stopped"
    /\ ui.result = "WriteError"
    /\ dirs = {}

\* the run has passed the preview section with a non-empty GeoDataFrame
PastPreview ==
    /\ pc \in { "convert", "san_for", "san_while", "mkdtemp", "to_file", "zip",
                "download", "done", "stopped" }
    /\ gdf_wgs84.rows # << >>

====
